---- MODULE Spec2Model ----
(***************************************************************************)
(* Model of http-lambda-invoker (src/http-lambda-invoker.go): an HTTP      *)
(* handler that turns a request into an API-Gateway proxy event, invokes a *)
(* Lambda function with it and writes the function's result back as the    *)
(* HTTP response.                                                          *)
(*                                                                         *)
(* Strings whose individual characters matter (header names, route         *)
(* templates, paths, regexp sources) are sequences of one-character        *)
(* strings; strings that are only copied (bodies, header values, methods)  *)
(* are TLA+ strings.                                                       *)
(***************************************************************************)
EXTENDS Integers, Sequences, FiniteSets, TLC

VARIABLES
    route,        \* value of the ROUTE environment variable (getConfig("ROUTE"))
    handlers,     \* per request: the locals of invokeLambda and its ResponseWriter
    invocations,  \* the Invoke calls the Lambda client has received, in order
    mvm,          \* argument of multiValueMapToSingleValueMap under test
    svm,          \* its return value
    pattern,      \* argument of pathPatternToPathRegex under test
    upath,        \* path argument of extractPathParameters under test
    compiled,     \* return value of pathPatternToPathRegex
    found,        \* what FindStringSubmatch returns for upath
    params,       \* return value of extractPathParameters
    step          \* position of the function-level drivers

vars == <<route, handlers, invocations, mvm, svm, pattern, upath, compiled, found, params, step>>

-----------------------------------------------------------------------------
(* Bounds of the model.                                                    *)

\* longest value sequence of one key in a multi-value map
MaxVals == 2
\* longest placeholder value V1, V2 tried in a path /a/V1/b/V2
MaxSegLen == 2

-----------------------------------------------------------------------------
(* Characters.                                                             *)

LowerLetters == <<"a","b","c","d","e","f","g","h","i","j","k","l","m",
                  "n","o","p","q","r","s","t","u","v","w","x","y","z">>
UpperLetters == <<"A","B","C","D","E","F","G","H","I","J","K","L","M",
                  "N","O","P","Q","R","S","T","U","V","W","X","Y","Z">>
Digits == {"0","1","2","3","4","5","6","7","8","9"}

Range(s) == {s[i] : i \in 1..Len(s)}

IsLower(c) == c \in Range(LowerLetters)
IsUpper(c) == c \in Range(UpperLetters)

LetterIndex(letters, c) == CHOOSE i \in 1..Len(letters) : letters[i] = c

ToUpper(c) == IF IsLower(c) THEN UpperLetters[LetterIndex(LowerLetters, c)] ELSE c
ToLower(c) == IF IsUpper(c) THEN LowerLetters[LetterIndex(UpperLetters, c)] ELSE c

\* strings.ToLower / case-insensitive equality of two names
LowerString(s) == [i \in 1..Len(s) |-> ToLower(s[i])]
EqualFold(s, t) == LowerString(s) = LowerString(t)

SetMax(S) == CHOOSE n \in S : \A m \in S : m <= n
SetMin(S) == CHOOSE n \in S : \A m \in S : n <= m

-----------------------------------------------------------------------------
(* multiValueMapToSingleValueMap                                           *)

multiValueMapToSingleValueMap_first(m) ==
    [k \in DOMAIN m |-> IF Len(m[k]) > 0 THEN m[k][1] ELSE ""]

multiValueMapToSingleValueMap(m) ==
    [k \in DOMAIN m |-> IF Len(m[k]) > 0 THEN m[k][Len(m[k])] ELSE ""]

-----------------------------------------------------------------------------
(* Header names used by the program and by the results tried.              *)

\* the literal "content-length" of the comparison in the header loop
ContentLengthLiteral == <<"c","o","n","t","e","n","t","-","l","e","n","g","t","h">>
\* the literal "Access-Control-Allow-Origin" of the CORS line
CorsLiteral == <<"A","c","c","e","s","s","-","C","o","n","t","r","o","l","-","A","l","l","o","w","-","O","r","i","g","i","n">>
CorsValue == "*"
\* the names http.Error sets
ContentTypeLiteral == <<"C","o","n","t","e","n","t","-","T","y","p","e">>
NoSniffLiteral == <<"X","-","C","o","n","t","e","n","t","-","T","y","p","e","-","O","p","t","i","o","n","s">>

\* other spellings a result may use
ContentLengthCanon == <<"C","o","n","t","e","n","t","-","L","e","n","g","t","h">>
ContentLengthUpper == <<"C","O","N","T","E","N","T","-","L","E","N","G","T","H">>
ContentTypeLower == <<"c","o","n","t","e","n","t","-","t","y","p","e">>
CorsLower == <<"a","c","c","e","s","s","-","c","o","n","t","r","o","l","-","a","l","l","o","w","-","o","r","i","g","i","n">>
CorsUpper == <<"A","C","C","E","S","S","-","C","O","N","T","R","O","L","-","A","L","L","O","W","-","O","R","I","G","I","N">>
XTraceLower == <<"x","-","t","r","a","c","e">>

-----------------------------------------------------------------------------
(* http.Header: a map from canonical name to the sequence of its values.   *)
(* Add, Set and Get canonicalise the name they are given.                  *)

\* net/textproto validHeaderFieldByte, on the characters of the model
validHeaderFieldByte(c) ==
    IsLower(c) \/ IsUpper(c) \/ c \in Digits \/ c \in {"-", "_", "."}

\* a canonicalisation that keeps the spelling it is given
CanonicalMIMEHeaderKey_verbatim(s) == s

\* net/textproto CanonicalMIMEHeaderKey: a name with a byte that is not a
\* token byte is returned unchanged; otherwise the first letter and every
\* letter after a hyphen are upper-cased and the others lower-cased
CanonicalMIMEHeaderKey(s) ==
    IF \E i \in 1..Len(s) : ~validHeaderFieldByte(s[i])
    THEN s
    ELSE [i \in 1..Len(s) |->
            IF i = 1 \/ s[i-1] = "-" THEN ToUpper(s[i]) ELSE ToLower(s[i])]

EmptyHeader == <<>>

HeaderAdd(h, key, value) ==
    LET k == CanonicalMIMEHeaderKey(key) IN
    IF k \in DOMAIN h
    THEN [h EXCEPT ![k] = Append(@, value)]
    ELSE [n \in DOMAIN h \cup {k} |-> IF n = k THEN <<value>> ELSE h[n]]

HeaderSet(h, key, value) ==
    LET k == CanonicalMIMEHeaderKey(key) IN
    [n \in DOMAIN h \cup {k} |-> IF n = k THEN <<value>> ELSE h[n]]

HeaderGet(h, key) ==
    LET k == CanonicalMIMEHeaderKey(key) IN
    IF k \in DOMAIN h /\ Len(h[k]) > 0 THEN h[k][1] ELSE ""

-----------------------------------------------------------------------------
(* http.ResponseWriter, as the recorder the tests use: the header map, the *)
(* status once written, the header map as it was when the status was       *)
(* written, the body as the sequence of non-empty strings written, and     *)
(* the calls the handler made on it, in order.                             *)

\* the content of a string as written to the body: writing "" writes nothing
Bytes(s) == IF s = "" THEN <<>> ELSE <<s>>

NewWriter ==
    [header |-> EmptyHeader, wroteHeader |-> FALSE, code |-> 0,
     sent |-> EmptyHeader, body |-> <<>>, statusWrites |-> 0, calls |-> <<>>]

\* the handler called the methods named in cs, in that order
WriterCalled(w, cs) == [w EXCEPT !.calls = @ \o cs]

\* ResponseWriter.WriteHeader: the first call fixes status and headers
WriterWriteHeader(w, code) ==
    IF w.wroteHeader
    THEN [w EXCEPT !.statusWrites = @ + 1]
    ELSE [w EXCEPT !.wroteHeader = TRUE, !.code = code, !.sent = w.header,
                   !.statusWrites = @ + 1]

\* ResponseWriter.Write: writes status 200 first when none was written
WriterWrite(w, s) ==
    LET w1 == IF w.wroteHeader THEN w
              ELSE [w EXCEPT !.wroteHeader = TRUE, !.code = 200, !.sent = w.header]
    IN [w1 EXCEPT !.body = @ \o Bytes(s)]

StatusBadRequest == 400

\* an error handler that answers with a server error
handleError_500(w, err) ==
    LET h1 == HeaderSet(w.header, ContentTypeLiteral, "text/plain; charset=utf-8")
        h2 == HeaderSet(h1, NoSniffLiteral, "nosniff")
        w1 == WriterWriteHeader([w EXCEPT !.header = h2], 500)
    IN WriterCalled(WriterWrite(WriterWrite(WriterWrite(w1, "Error: "), err), "\n"),
                    <<"Set", "Set", "WriteHeader", "Write">>)

\* handleError: http.Error(w, fmt.Sprintf("Error: %v", err), 400)
handleError(w, err) ==
    LET h1 == HeaderSet(w.header, ContentTypeLiteral, "text/plain; charset=utf-8")
        h2 == HeaderSet(h1, NoSniffLiteral, "nosniff")
        w1 == WriterWriteHeader([w EXCEPT !.header = h2], StatusBadRequest)
    IN WriterCalled(WriterWrite(WriterWrite(WriterWrite(w1, "Error: "), err), "\n"),
                    <<"Set", "Set", "WriteHeader", "Write">>)

-----------------------------------------------------------------------------
(* pathPatternToPathRegex: the template is rewritten by                    *)
(*   regexp.MustCompile(`:([^/]+)`).ReplaceAllString(pattern,              *)
(*                                        `(?P<$1>[^/]+)`)                 *)
(* and the rewritten text is compiled by regexp.Compile.                   *)

GroupOpen == <<"(", "?", "P", "<">>
GroupClose == <<">", "[", "^", "/", "]", "+", ")">>

\* length of the longest run of characters other than "/" starting at s[i]
NonSlashRun(s, i) ==
    SetMax({n \in 0..(Len(s) - i + 1) : \A j \in i..(i + n - 1) : s[j] # "/"})

\* ReplaceAllString: every leftmost, non-overlapping match of `:([^/]+)`
\* (a colon and the longest following run of non-slash characters) is
\* replaced by the named group whose name is the run; the rest is copied
RECURSIVE ReplaceAllFrom(_, _)
ReplaceAllFrom(p, i) ==
    IF i > Len(p) THEN <<>>
    ELSE IF p[i] = ":" /\ NonSlashRun(p, i + 1) > 0
         THEN LET n == NonSlashRun(p, i + 1) IN
              GroupOpen \o SubSeq(p, i + 1, i + n) \o GroupClose
                  \o ReplaceAllFrom(p, i + n + 1)
         ELSE <<p[i]>> \o ReplaceAllFrom(p, i + 1)

ReplaceAllString(p) == ReplaceAllFrom(p, 1)

\* regexp/syntax isValidCaptureName: non-empty, letters, digits and "_"
isValidCaptureName(name) ==
    /\ Len(name) > 0
    /\ \A i \in 1..Len(name) :
          IsLower(name[i]) \/ IsUpper(name[i]) \/ name[i] \in Digits \/ name[i] = "_"

\* the atoms of a compiled pattern
LitAtom(c) == [kind |-> "lit", c |-> c, name |-> <<>>, plus |-> FALSE]
AnyAtom == [kind |-> "any", c |-> "", name |-> <<>>, plus |-> FALSE]
GroupAtom(name) == [kind |-> "group", c |-> "", name |-> name, plus |-> TRUE]

CompileError(src) == [err |-> TRUE, source |-> src, atoms |-> <<>>]

\* strings.HasPrefix(s[i:], pre), positions counted from 1
HasPrefixAt(s, i, pre) ==
    /\ i + Len(pre) - 1 <= Len(s)
    /\ SubSeq(s, i, i + Len(pre) - 1) = pre

\* first index at or after i where s holds c, or 0
IndexFrom(s, c, i) ==
    LET hits == {j \in i..Len(s) : s[j] = c} IN
    IF hits = {} THEN 0 ELSE SetMin(hits)

\* regexp.Compile on the sources the rewriting can produce from templates
\* over "/", ":", ".", "+", "(", letters and digits:
\*   (?P<name>[^/]+)  a named group, an error when the name is not valid;
\*   (                any other parenthesis is never closed: an error;
\*   .                any character;
\*   +                one or more of the atom before it, an error when there
\*                    is none or when that atom is already repeated;
\*   anything else    the character itself.
RECURSIVE ParseFrom(_, _, _)
ParseFrom(src, i, atoms) ==
    IF i > Len(src) THEN [err |-> FALSE, source |-> src, atoms |-> atoms]
    ELSE LET c == src[i] IN
         CASE c = "(" ->
                IF HasPrefixAt(src, i, GroupOpen)
                THEN LET j == IndexFrom(src, ">", i + 4) IN
                     IF j = 0 THEN CompileError(src)
                     ELSE IF ~isValidCaptureName(SubSeq(src, i + 4, j - 1))
                          THEN CompileError(src)
                     ELSE IF ~HasPrefixAt(src, j, GroupClose)
                          THEN CompileError(src)
                     ELSE ParseFrom(src, j + 7,
                                    Append(atoms, GroupAtom(SubSeq(src, i + 4, j - 1))))
                ELSE CompileError(src)
           [] c = "+" ->
                IF atoms = <<>> \/ atoms[Len(atoms)].plus
                THEN CompileError(src)
                ELSE ParseFrom(src, i + 1,
                               [atoms EXCEPT ![Len(atoms)].plus = TRUE])
           [] c = "." -> ParseFrom(src, i + 1, Append(atoms, AnyAtom))
           [] OTHER -> ParseFrom(src, i + 1, Append(atoms, LitAtom(c)))

regexpCompile(src) == ParseFrom(src, 1, <<>>)

\* pathPatternToPathRegex: err is the error return, source is what
\* Regexp.String() gives, atoms is the compiled program
pathPatternToPathRegex(p) == regexpCompile(ReplaceAllString(p))

\* Regexp.SubexpNames: the empty name of the whole match, then one name
\* per group in order
RECURSIVE GroupNames(_)
GroupNames(atoms) ==
    IF atoms = <<>> THEN <<>>
    ELSE (IF atoms[1].kind = "group" THEN <<atoms[1].name>> ELSE <<>>)
            \o GroupNames(Tail(atoms))

SubexpNames(re) == <<(<<>>)>> \o GroupNames(re.atoms)

-----------------------------------------------------------------------------
(* Matching: Go's regexp is leftmost-first and its repetitions are greedy. *)

AtomAccepts(a, c) ==
    CASE a.kind = "lit" -> c = a.c
      [] a.kind = "any" -> c # "\n"
      [] a.kind = "group" -> c # "/"

\* longest run of characters a accepts, starting at s[pos]
AtomRun(a, s, pos) ==
    SetMax({n \in 0..(Len(s) - pos + 1) :
               \A j \in pos..(pos + n - 1) : AtomAccepts(a, s[j])})

NoMatch == [ok |-> FALSE, end |-> 0, caps |-> <<>>]

\* the preferred match of atoms[i..] against s from pos: a repeated atom
\* takes the longest run that lets the rest match
RECURSIVE MatchAt(_, _, _, _)
MatchAt(atoms, i, s, pos) ==
    IF i > Len(atoms) THEN [ok |-> TRUE, end |-> pos, caps |-> <<>>]
    ELSE LET a == atoms[i]
             run == AtomRun(a, s, pos)
             lens == IF a.plus THEN 1..run ELSE {n \in {1} : n <= run}
             good == {n \in lens : MatchAt(atoms, i + 1, s, pos + n).ok}
         IN IF good = {} THEN NoMatch
            ELSE LET n == SetMax(good)
                     rest == MatchAt(atoms, i + 1, s, pos + n)
                 IN [ok |-> TRUE, end |-> rest.end,
                     caps |-> IF a.kind = "group"
                              THEN <<SubSeq(s, pos, pos + n - 1)>> \o rest.caps
                              ELSE rest.caps]

\* the positions at which a match of the pattern starts
MatchStarts(re, s) == {p \in 1..(Len(s) + 1) : MatchAt(re.atoms, 1, s, p).ok}

\* a matcher that accepts only a match of the whole string
FindStringSubmatch_anchored(re, s) ==
    LET m == MatchAt(re.atoms, 1, s, 1) IN
    IF m.ok /\ m.end = Len(s) + 1 THEN <<s>> \o m.caps ELSE <<>>

\* Regexp.FindStringSubmatch: the leftmost match, as the matched text
\* followed by the text of each group; the empty sequence (nil) when the
\* pattern matches nowhere in s
FindStringSubmatch(re, s) ==
    IF MatchStarts(re, s) = {} THEN <<>>
    ELSE LET p == SetMin(MatchStarts(re, s))
             m == MatchAt(re.atoms, 1, s, p)
         IN <<SubSeq(s, p, m.end - 1)>> \o m.caps

\* Regexp.MatchString
MatchString(re, s) == FindStringSubmatch(re, s) # <<>>

\* a loop that reads the match one position too early
RECURSIVE ExtractLoop_shifted(_, _, _, _)
ExtractLoop_shifted(names, match, i, pathParameters) ==
    IF i + 1 > Len(names) THEN pathParameters
    ELSE IF Len(match) < i + 1 THEN pathParameters
    ELSE LET name == names[i + 1] IN
         IF i # 0 /\ name # <<>>
         THEN ExtractLoop_shifted(names, match, i + 1,
                  [k \in DOMAIN pathParameters \cup {name} |->
                      IF k = name THEN match[i] ELSE pathParameters[k]])
         ELSE ExtractLoop_shifted(names, match, i + 1, pathParameters)

\* the loop of extractPathParameters over SubexpNames, i counting from 0
RECURSIVE ExtractLoop(_, _, _, _)
ExtractLoop(names, match, i, pathParameters) ==
    IF i + 1 > Len(names) THEN pathParameters
    ELSE IF Len(match) < i + 1 THEN pathParameters
    ELSE LET name == names[i + 1] IN
         IF i # 0 /\ name # <<>>
         THEN ExtractLoop(names, match, i + 1,
                  [k \in DOMAIN pathParameters \cup {name} |->
                      IF k = name THEN match[i + 1] ELSE pathParameters[k]])
         ELSE ExtractLoop(names, match, i + 1, pathParameters)

EmptyMap == <<>>

extractPathParameters(path, rePathPattern) ==
    ExtractLoop(SubexpNames(rePathPattern),
                FindStringSubmatch(rePathPattern, path), 0, EmptyMap)

-----------------------------------------------------------------------------
(* Inputs of the request flow.                                             *)

\* most header names a result carries
MaxResultHeaders == 2
MaxRequests == 2

SeqsUpTo(S, n) == UNION {[1..k -> S] : k \in 0..n}

\* every map from some of the keys K to a sequence of at most MaxVals values
MultiValueMaps(K, V) == UNION {[D -> SeqsUpTo(V, MaxVals)] : D \in SUBSET K}

\* values of ROUTE: unset, two placeholders, no placeholder, and templates
\* that do not compile; RouteDot, a template with a pattern metacharacter,
\* is tried on the template functions alone
RouteEmpty == <<>>
RouteXY == <<"/","a","/",":","x","/","b","/",":","y">>
RouteLiteral == <<"/","a","/","b">>
RouteDot == <<"/","a",".","b">>
RouteBadName == <<"/","a","/",":","x",".","y">>
RouteParen == <<"/","(","a">>
Routes == {RouteEmpty, RouteXY, RouteLiteral, RouteBadName, RouteParen}

Methods == {"GET", "POST"}
RequestPaths == {<<"/">>, <<"/","a","/","1","2","/","b","/","z">>, <<"/","a","/","1","2","/","c">>}
RequestBodies == {"", "{\"prop\":\"value\"}"}
RequestHeaders == {EmptyMap,
                   [k \in {"Accept", "X-Empty"} |->
                       IF k = "Accept" THEN <<"text/html", "*/*">> ELSE <<>>]}
RequestQueries == {EmptyMap, [k \in {"q"} |-> <<"1", "2">>]}

\* the requests net/http hands to the handler
Requests ==
    [Method : Methods, Path : RequestPaths, Body : RequestBodies,
     Header : RequestHeaders, Query : RequestQueries]

\* header names a result may carry, each with the value tried for it
ResultHeaderNames ==
    {ContentLengthLiteral, ContentLengthCanon, ContentLengthUpper,
     ContentTypeLower, CorsLower, CorsUpper, CorsLiteral, XTraceLower}

ResultHeaderValue(name) ==
    CASE EqualFold(name, ContentLengthLiteral) -> "5"
      [] name = ContentTypeLower -> "application/json"
      [] name = CorsLower -> "https://a.example"
      [] name = CorsUpper -> "https://c.example"
      [] name = CorsLiteral -> "https://b.example"
      [] OTHER -> "t1"

ResultHeaderMaps ==
    {[k \in D |-> ResultHeaderValue(k)] :
        D \in {D \in SUBSET ResultHeaderNames : Cardinality(D) <= MaxResultHeaders}}

ResultStatusCodes == {200, 500}
ResultBodies == {"", "{\"hasPayload\":true}"}

\* the JSON texts a function returns: an object with the fields of
\* events.APIGatewayProxyResponse (headers may be null), or a text that is
\* not such an object
ResultPayloads ==
    [kind : {"json"}, statusCode : ResultStatusCodes, headersNull : {FALSE},
     headers : ResultHeaderMaps, body : ResultBodies]
    \cup [kind : {"json"}, statusCode : ResultStatusCodes, headersNull : {TRUE},
          headers : {EmptyMap}, body : ResultBodies]
    \cup {[kind |-> "malformed"]}

\* what Invoke returns: a payload, or an error
InvokeOutputs ==
    [err : {FALSE}, Payload : ResultPayloads] \cup {[err |-> TRUE]}

-----------------------------------------------------------------------------
(* json.Marshal of the event and json.Unmarshal of the result.             *)

\* json.Marshal(events.APIGatewayProxyRequest): the fields under their JSON
\* names
jsonMarshal(request) ==
    [body |-> request.Body,
     httpMethod |-> request.HTTPMethod,
     path |-> request.Path,
     headers |-> request.Headers,
     multiValueHeaders |-> request.MultiValueHeaders,
     queryStringParameters |-> request.QueryStringParameters,
     multiValueQueryStringParameters |-> request.MultiValueQueryStringParameters,
     pathParameters |-> request.PathParameters]

ZeroResponse == [StatusCode |-> 0, Headers |-> EmptyMap, Body |-> ""]

\* json.Unmarshal into events.APIGatewayProxyResponse: an error for a text
\* that is not such an object; null headers decode to a nil map
jsonUnmarshal(payload) ==
    IF payload.kind = "malformed"
    THEN [err |-> TRUE, response |-> ZeroResponse]
    ELSE [err |-> FALSE,
          response |-> [StatusCode |-> payload.statusCode,
                        Headers |-> IF payload.headersNull THEN EmptyMap
                                    ELSE payload.headers,
                        Body |-> payload.body]]

-----------------------------------------------------------------------------
(* invokeLambda, one action per statement group.  handlers[r] holds the    *)
(* request r, the locals of the call and its ResponseWriter w.             *)

NoRegexp == [err |-> FALSE, source |-> <<>>, atoms |-> <<>>]

ZeroRequest ==
    [Body |-> "", HTTPMethod |-> "", Path |-> <<>>,
     MultiValueHeaders |-> EmptyMap, Headers |-> EmptyMap,
     MultiValueQueryStringParameters |-> EmptyMap,
     QueryStringParameters |-> EmptyMap, PathParameters |-> EmptyMap]

NewHandler(req) ==
    [pc |-> "readBody", r |-> req, body |-> "", rePathPattern |-> NoRegexp,
     match |-> <<>>, pathParameters |-> EmptyMap, request |-> ZeroRequest,
     payload |-> jsonMarshal(ZeroRequest), result |-> [kind |-> "none"],
     response |-> ZeroResponse, todo |-> {}, failed |-> "", w |-> NewWriter]

\* the handler of request id returns after handleError(w, err)
Fail(id, what) ==
    handlers' = [handlers EXCEPT ![id].failed = what,
                                 ![id].w = handleError(@, what),
                                 ![id].pc = "done"]

FlowUnchanged == UNCHANGED <<route, mvm, svm, pattern, upath, compiled, found, params, step>>

\* body, err := io.ReadAll(r.Body)
ReadBody(id) ==
    /\ handlers[id].pc = "readBody"
    /\ \E readFails \in BOOLEAN :
          IF readFails THEN Fail(id, "read")
          ELSE handlers' = [handlers EXCEPT ![id].body = handlers[id].r.Body,
                                            ![id].pc = "compile"]
    /\ UNCHANGED invocations
    /\ FlowUnchanged

\* a handler that refuses a path its route template does not match
CompileRoute_strict(id) ==
    /\ handlers[id].pc = "compile"
    /\ LET re == pathPatternToPathRegex(route) IN
       IF re.err \/ ~MatchString(re, handlers[id].r.Path) THEN Fail(id, "compile")
       ELSE handlers' = [handlers EXCEPT
                ![id].rePathPattern = re,
                ![id].match = FindStringSubmatch(re, handlers[id].r.Path),
                ![id].pathParameters = extractPathParameters(handlers[id].r.Path, re),
                ![id].pc = "build"]
    /\ UNCHANGED invocations
    /\ FlowUnchanged

\* route := getConfig("ROUTE"); rePathPattern, err := pathPatternToPathRegex(route);
\* pathParameters := extractPathParameters(r.URL.Path, rePathPattern), whose
\* local match is kept with the mapping it returns
CompileRoute(id) ==
    /\ handlers[id].pc = "compile"
    /\ LET re == pathPatternToPathRegex(route) IN
       IF re.err THEN Fail(id, "compile")
       ELSE handlers' = [handlers EXCEPT
                ![id].rePathPattern = re,
                ![id].match = FindStringSubmatch(re, handlers[id].r.Path),
                ![id].pathParameters = extractPathParameters(handlers[id].r.Path, re),
                ![id].pc = "build"]
    /\ UNCHANGED invocations
    /\ FlowUnchanged

\* an event whose body comes from a buffer all requests share
BuildRequest_shared(id) ==
    /\ handlers[id].pc = "build"
    /\ LET h == handlers[id] IN
       handlers' = [handlers EXCEPT
           ![id].request =
               [Body |-> handlers[SetMin(DOMAIN handlers)].body,
                HTTPMethod |-> h.r.Method,
                Path |-> h.r.Path,
                MultiValueHeaders |-> h.r.Header,
                Headers |-> multiValueMapToSingleValueMap(h.r.Header),
                MultiValueQueryStringParameters |-> h.r.Query,
                QueryStringParameters |-> multiValueMapToSingleValueMap(h.r.Query),
                PathParameters |-> h.pathParameters],
           ![id].pc = "marshal"]
    /\ UNCHANGED invocations
    /\ FlowUnchanged

\* request := events.APIGatewayProxyRequest{...}
BuildRequest(id) ==
    /\ handlers[id].pc = "build"
    /\ LET h == handlers[id] IN
       handlers' = [handlers EXCEPT
           ![id].request =
               [Body |-> h.body,
                HTTPMethod |-> h.r.Method,
                Path |-> h.r.Path,
                MultiValueHeaders |-> h.r.Header,
                Headers |-> multiValueMapToSingleValueMap(h.r.Header),
                MultiValueQueryStringParameters |-> h.r.Query,
                QueryStringParameters |-> multiValueMapToSingleValueMap(h.r.Query),
                PathParameters |-> h.pathParameters],
           ![id].pc = "marshal"]
    /\ UNCHANGED invocations
    /\ FlowUnchanged

\* payload, err := json.Marshal(request); the error return is the one the
\* code handles, whatever makes the encoder report it
Marshal(id) ==
    /\ handlers[id].pc = "marshal"
    /\ \E marshalFails \in BOOLEAN :
          IF marshalFails THEN Fail(id, "marshal")
          ELSE handlers' = [handlers EXCEPT
                   ![id].payload = jsonMarshal(handlers[id].request),
                   ![id].pc = "invoke"]
    /\ UNCHANGED invocations
    /\ FlowUnchanged

\* result, err := c.Invoke(&lambda.InvokeInput{FunctionName: ..., Payload: payload}),
\* the function answering with one of outs
InvokeWith(id, outs) ==
    /\ handlers[id].pc = "invoke"
    /\ invocations' = Append(invocations,
                             [id |-> id, Payload |-> handlers[id].payload])
    /\ \E out \in outs :
          IF out.err THEN Fail(id, "invoke")
          ELSE handlers' = [handlers EXCEPT ![id].result = out.Payload,
                                            ![id].pc = "unmarshal"]
    /\ FlowUnchanged

Invoke(id) == InvokeWith(id, InvokeOutputs)

\* a decode error branch without its return
Unmarshal_noReturn(id) ==
    /\ handlers[id].pc = "unmarshal"
    /\ LET d == jsonUnmarshal(handlers[id].result) IN
       handlers' = [handlers EXCEPT
           ![id].failed = IF d.err THEN "unmarshal" ELSE @,
           ![id].w = IF d.err THEN handleError(@, "unmarshal") ELSE @,
           ![id].response = d.response,
           ![id].todo = DOMAIN d.response.Headers,
           ![id].pc = "range"]
    /\ UNCHANGED invocations
    /\ FlowUnchanged

\* err = json.Unmarshal(result.Payload, &response)
Unmarshal(id) ==
    /\ handlers[id].pc = "unmarshal"
    /\ LET d == jsonUnmarshal(handlers[id].result) IN
       IF d.err THEN Fail(id, "unmarshal")
       ELSE handlers' = [handlers EXCEPT
                ![id].response = d.response,
                ![id].todo = DOMAIN d.response.Headers,
                ![id].pc = "range"]
    /\ UNCHANGED invocations
    /\ FlowUnchanged

\* one iteration of  for key, value := range response.Headers,  the keys
\* in any order:  if key != "content-length" { w.Header().Add(key, value) }
RangeHeaders(id) ==
    /\ handlers[id].pc = "range"
    /\ \E key \in handlers[id].todo :
          LET value == handlers[id].response.Headers[key] IN
          handlers' = [handlers EXCEPT
              ![id].w = IF key # ContentLengthLiteral
                        THEN WriterCalled([@ EXCEPT !.header = HeaderAdd(@, key, value)],
                                          <<"Add">>)
                        ELSE @,
              ![id].todo = @ \ {key}]
    /\ UNCHANGED invocations
    /\ FlowUnchanged

\* a CORS line that adds its value to the ones already there
EnableCors_add(id) ==
    /\ handlers[id].pc = "range"
    /\ handlers[id].todo = {}
    /\ handlers' = [handlers EXCEPT
           ![id].w = WriterCalled([@ EXCEPT !.header = HeaderAdd(@, CorsLiteral, CorsValue)],
                                  <<"Add">>),
           ![id].pc = "writeHeader"]
    /\ UNCHANGED invocations
    /\ FlowUnchanged

\* a CORS line placed after the status line
EnableCors_late(id) ==
    /\ handlers[id].pc = "range"
    /\ handlers[id].todo = {}
    /\ LET w1 == WriterWriteHeader(handlers[id].w, handlers[id].response.StatusCode)
           w2 == [w1 EXCEPT !.header = HeaderSet(@, CorsLiteral, CorsValue)]
       IN handlers' = [handlers EXCEPT
              ![id].w = WriterCalled(w2, <<"WriteHeader", "Set">>),
              ![id].pc = "writeBody"]
    /\ UNCHANGED invocations
    /\ FlowUnchanged

\* after the loop:  w.Header().Set("Access-Control-Allow-Origin", "*")
EnableCors(id) ==
    /\ handlers[id].pc = "range"
    /\ handlers[id].todo = {}
    /\ handlers' = [handlers EXCEPT
           ![id].w = WriterCalled([@ EXCEPT !.header = HeaderSet(@, CorsLiteral, CorsValue)],
                                  <<"Set">>),
           ![id].pc = "writeHeader"]
    /\ UNCHANGED invocations
    /\ FlowUnchanged

\* a status line that always reports success
WriteStatus_ok(id) ==
    /\ handlers[id].pc = "writeHeader"
    /\ handlers' = [handlers EXCEPT
           ![id].w = WriterCalled(WriterWriteHeader(@, 200), <<"WriteHeader">>),
           ![id].pc = "writeBody"]
    /\ UNCHANGED invocations
    /\ FlowUnchanged

\* w.WriteHeader(response.StatusCode)
WriteStatus(id) ==
    /\ handlers[id].pc = "writeHeader"
    /\ handlers' = [handlers EXCEPT
           ![id].w = WriterCalled(WriterWriteHeader(@, handlers[id].response.StatusCode),
                                  <<"WriteHeader">>),
           ![id].pc = "writeBody"]
    /\ UNCHANGED invocations
    /\ FlowUnchanged

\* fmt.Fprint(w, string(response.Body))
WriteBody(id) ==
    /\ handlers[id].pc = "writeBody"
    /\ handlers' = [handlers EXCEPT
           ![id].w = WriterCalled(WriterWrite(@, handlers[id].response.Body), <<"Write">>),
           ![id].pc = "done"]
    /\ UNCHANGED invocations
    /\ FlowUnchanged

\* values of the function-level variables while the request flow runs
FunctionsIdle ==
    /\ mvm = EmptyMap /\ svm = EmptyMap
    /\ pattern = <<>> /\ upath = <<>>
    /\ compiled = NoRegexp /\ found = <<>> /\ params = EmptyMap
    /\ step = "idle"

\* one request, any ROUTE
Init ==
    /\ route \in Routes
    /\ \E req \in Requests : handlers = [id \in {1} |-> NewHandler(req)]
    /\ invocations = <<>>
    /\ FunctionsIdle

Next ==
    \/ \E id \in DOMAIN handlers : ReadBody(id)
    \/ \E id \in DOMAIN handlers : CompileRoute(id)
    \/ \E id \in DOMAIN handlers : BuildRequest(id)
    \/ \E id \in DOMAIN handlers : Marshal(id)
    \/ \E id \in DOMAIN handlers : Invoke(id)
    \/ \E id \in DOMAIN handlers : Unmarshal(id)
    \/ \E id \in DOMAIN handlers : RangeHeaders(id)
    \/ \E id \in DOMAIN handlers : EnableCors(id)
    \/ \E id \in DOMAIN handlers : WriteStatus(id)
    \/ \E id \in DOMAIN handlers : WriteBody(id)

Spec == Init /\ [][Next]_vars

-----------------------------------------------------------------------------
(* Several requests at once: net/http runs handler in one goroutine per    *)
(* request, so the steps of the calls interleave freely.                   *)

\* the requests that arrive together, by turns
ConcRequests ==
    <<[Method |-> "GET", Path |-> <<"/">>, Body |-> "",
      Header |-> EmptyMap, Query |-> EmptyMap],
     [Method |-> "POST", Path |-> <<"/","a","/","1","2","/","b","/","z">>,
      Body |-> "{\"prop\":\"value\"}",
      Header |-> [k \in {"Accept", "X-Empty"} |->
                     IF k = "Accept" THEN <<"text/html", "*/*">> ELSE <<>>],
      Query |-> [k \in {"q"} |-> <<"1", "2">>]]>>

ConcRequest(id) == ConcRequests[((id - 1) % Len(ConcRequests)) + 1]

\* the answers of the function to them
ConcOutputs ==
    {[err |-> TRUE],
     [err |-> FALSE, Payload |-> [kind |-> "malformed"]],
     [err |-> FALSE,
      Payload |-> [kind |-> "json", statusCode |-> 200, headersNull |-> FALSE,
                   headers |-> [k \in {XTraceLower} |-> ResultHeaderValue(k)],
                   body |-> "{\"hasPayload\":true}"]],
     [err |-> FALSE,
      Payload |-> [kind |-> "json", statusCode |-> 500, headersNull |-> TRUE,
                   headers |-> EmptyMap, body |-> ""]]}

\* MaxRequests requests in flight, ROUTE unset or with two placeholders
InitConc ==
    /\ route \in {RouteEmpty, RouteXY}
    /\ handlers = [id \in 1..MaxRequests |-> NewHandler(ConcRequest(id))]
    /\ invocations = <<>>
    /\ FunctionsIdle

NextConc ==
    \/ \E id \in DOMAIN handlers : ReadBody(id)
    \/ \E id \in DOMAIN handlers : CompileRoute(id)
    \/ \E id \in DOMAIN handlers : BuildRequest(id)
    \/ \E id \in DOMAIN handlers : Marshal(id)
    \/ \E id \in DOMAIN handlers : InvokeWith(id, ConcOutputs)
    \/ \E id \in DOMAIN handlers : Unmarshal(id)
    \/ \E id \in DOMAIN handlers : RangeHeaders(id)
    \/ \E id \in DOMAIN handlers : EnableCors(id)
    \/ \E id \in DOMAIN handlers : WriteStatus(id)
    \/ \E id \in DOMAIN handlers : WriteBody(id)

SpecConc == InitConc /\ [][NextConc]_vars

-----------------------------------------------------------------------------
(* multiValueMapToSingleValueMap on its own: every multi-value map over    *)
(* two keys and two values.                                                *)

NormKeys == {"k1", "k2"}
NormVals == {"first", "last"}

FlowIdle ==
    /\ route = RouteEmpty
    /\ handlers = <<>>
    /\ invocations = <<>>

InitNorm ==
    /\ mvm \in MultiValueMaps(NormKeys, NormVals)
    /\ svm = EmptyMap
    /\ step = "call"
    /\ pattern = <<>> /\ upath = <<>>
    /\ compiled = NoRegexp /\ found = <<>> /\ params = EmptyMap
    /\ FlowIdle

Normalize ==
    /\ step = "call"
    /\ svm' = multiValueMapToSingleValueMap(mvm)
    /\ step' = "returned"
    /\ UNCHANGED <<route, handlers, invocations, mvm, pattern, upath, compiled, found, params>>

NextNorm == Normalize

SpecNorm == InitNorm /\ [][NextNorm]_vars

-----------------------------------------------------------------------------
(* pathPatternToPathRegex and extractPathParameters on their own.          *)

\* characters of the placeholder values tried
SegChars == {"a", "1"}

\* the non-empty, slash-free values V1, V2
Segs == SeqsUpTo(SegChars, MaxSegLen) \ {<<>>}

PathAB(v1, v2) == <<"/", "a", "/">> \o v1 \o <<"/", "b", "/">> \o v2
PathAC(v1) == <<"/", "a", "/">> \o v1 \o <<"/", "c">>

Templates ==
    Routes \cup {RouteDot, <<"/","a","+">>, <<"/","+">>, <<"/",":","x">>, <<"/","p","a","t","h","/","s","u","b","P","a","t","h">>}

TestPaths ==
    {PathAB(v1, v2) : v1 \in Segs, v2 \in Segs}
    \cup {PathAC(v1) : v1 \in Segs}
    \cup {<<>>, <<"/">>, <<"/","a","/","b">>, <<"/","a",".","b">>, <<"/","a","x","b">>, <<"/","a","a">>, <<"/","a","+">>, <<"/","p","a","t","h","/","s","u","b","P","a","t","h">>, <<"/","q","/","a","/","1","/","b","/","1","/","z">>}

InitPath ==
    /\ pattern \in Templates
    /\ upath \in TestPaths
    /\ compiled = NoRegexp
    /\ found = <<>>
    /\ params = EmptyMap
    /\ step = "compile"
    /\ mvm = EmptyMap /\ svm = EmptyMap
    /\ FlowIdle

\* rePathPattern, err := pathPatternToPathRegex(pattern)
Compile ==
    /\ step = "compile"
    /\ compiled' = pathPatternToPathRegex(pattern)
    /\ step' = IF compiled'.err THEN "failed" ELSE "extract"
    /\ UNCHANGED <<route, handlers, invocations, mvm, svm, pattern, upath, found, params>>

\* extractPathParameters(upath, rePathPattern), with the match it starts from
Extract ==
    /\ step = "extract"
    /\ found' = FindStringSubmatch(compiled, upath)
    /\ params' = extractPathParameters(upath, compiled)
    /\ step' = "done"
    /\ UNCHANGED <<route, handlers, invocations, mvm, svm, pattern, upath, compiled>>

NextPath == Compile \/ Extract

SpecPath == InitPath /\ [][NextPath]_vars

-----------------------------------------------------------------------------
(* Properties of the request flow (Spec).                                  *)

\* the handler of request id returned after writing the result's response
Succeeded(id) == handlers[id].pc = "done" /\ handlers[id].failed = ""

\* the Invoke calls made for request id
InvocationsOf(id) == {i \in 1..Len(invocations) : invocations[i].id = id}

\* C1: once a decoded result has been written, the response has no header
\* whose name equals content-length without regard to letter case,
\* whatever spelling the result used.
C1_NoContentLength ==
    \A id \in DOMAIN handlers :
        Succeeded(id) =>
            \A k \in DOMAIN handlers[id].w.sent : ~EqualFold(k, ContentLengthLiteral)

\* C2: once a decoded result has been written, the response carries
\* Access-Control-Allow-Origin with the single value "*", and no other
\* spelling of that name, also when the result supplied the name itself.
C2_CorsIsWildcard ==
    \A id \in DOMAIN handlers :
        Succeeded(id) =>
            LET h == handlers[id].w.sent IN
            /\ CorsLiteral \in DOMAIN h
            /\ \A k \in DOMAIN h : EqualFold(k, CorsLiteral) =>
                  k = CorsLiteral /\ h[k] = <<CorsValue>>

C2_Witness ==
    \E id \in DOMAIN handlers :
        /\ Succeeded(id)
        /\ CorsLower \in DOMAIN handlers[id].response.Headers
        /\ handlers[id].response.Headers[CorsLower] # CorsValue

\* C3: once a decoded result has been written, the status of the response
\* is the result's statusCode and the body is the result's body.
C3_StatusAndBody ==
    \A id \in DOMAIN handlers :
        Succeeded(id) =>
            /\ handlers[id].result.kind = "json"
            /\ handlers[id].w.wroteHeader
            /\ handlers[id].w.code = handlers[id].result.statusCode
            /\ handlers[id].w.body = Bytes(handlers[id].result.body)

C3_Witness ==
    \E id \in DOMAIN handlers :
        /\ Succeeded(id)
        /\ handlers[id].result.statusCode = 500
        /\ handlers[id].result.body = ""
        /\ handlers[id].r.Method = "POST"
        /\ handlers[id].r.Body # ""

\* C4: every result header that is neither content-length nor the CORS
\* header (in any letter case) is on the response under its canonical name
\* with the result's value; content-type is readable as Content-Type; the
\* response has no header the result or the CORS line did not give it.
C4_HeadersCopied ==
    \A id \in DOMAIN handlers :
        Succeeded(id) =>
            LET from == handlers[id].response.Headers
                h == handlers[id].w.sent
            IN /\ \A k \in DOMAIN from :
                    (~EqualFold(k, ContentLengthLiteral) /\ ~EqualFold(k, CorsLiteral))
                    => /\ CanonicalMIMEHeaderKey(k) \in DOMAIN h
                       /\ from[k] \in Range(h[CanonicalMIMEHeaderKey(k)])
               /\ ContentTypeLower \in DOMAIN from =>
                    /\ ContentTypeLiteral \in DOMAIN h
                    /\ h[ContentTypeLiteral] = <<from[ContentTypeLower]>>
                    /\ HeaderGet(h, ContentTypeLiteral) = from[ContentTypeLower]
               /\ DOMAIN h \subseteq
                    {CanonicalMIMEHeaderKey(k) : k \in DOMAIN from} \cup {CorsLiteral}
               /\ from = EmptyMap => DOMAIN h = {CorsLiteral}

C4_Witness ==
    \E id \in DOMAIN handlers :
        /\ Succeeded(id)
        /\ DOMAIN handlers[id].response.Headers = {ContentTypeLower, XTraceLower}

\* C6: a handler that failed has stopped, answered 400 with the message of
\* its error and nothing else; a failure before the invocation step leaves
\* the function uninvoked, and after a failed or undecodable invocation no
\* result header, CORS header, result status or result body is written.
C6_FailureStops ==
    \A id \in DOMAIN handlers :
        handlers[id].failed # "" =>
            LET h == handlers[id] IN
            /\ h.pc = "done"
            /\ h.w.code \in 400..499
            /\ h.w.statusWrites = 1
            /\ h.w.body = <<"Error: ", h.failed, "\n">>
            /\ DOMAIN h.w.sent = {ContentTypeLiteral, NoSniffLiteral}
            /\ h.w.header = h.w.sent
            /\ h.failed \in {"read", "compile", "marshal"} => InvocationsOf(id) = {}
            /\ h.failed \in {"invoke", "unmarshal"} =>
                  /\ Cardinality(InvocationsOf(id)) = 1
                  /\ h.response = ZeroResponse
                  /\ CorsLiteral \notin DOMAIN h.w.sent

C6_Witness ==
    \E id \in DOMAIN handlers :
        /\ handlers[id].failed = "unmarshal"
        /\ handlers[id].pc = "done"
        /\ Len(invocations) = 1

\* C8: a path the route template does not match, and a template without a
\* placeholder, give empty pathParameters and no failure: the only compile
\* failure is a template that does not compile, the event sent carries the
\* empty mapping, the function is invoked once and its result is written.
C8_NoMatchIsNoFailure ==
    \A id \in DOMAIN handlers :
        LET h == handlers[id] IN
        /\ h.failed = "compile" => pathPatternToPathRegex(route).err
        /\ (h.pc \notin {"readBody", "compile"} /\ h.failed \notin {"read", "compile"}
            /\ (\/ h.match = <<>>
                \/ GroupNames(h.rePathPattern.atoms) = <<>>))
           => /\ h.pathParameters = EmptyMap
              /\ h.pc \notin {"build"} => h.request.PathParameters = EmptyMap
              /\ Succeeded(id) =>
                    /\ Cardinality(InvocationsOf(id)) = 1
                    /\ \A i \in InvocationsOf(id) :
                          invocations[i].Payload.pathParameters = EmptyMap
                    /\ h.w.code = h.result.statusCode
                    /\ h.w.body = Bytes(h.result.body)

C8_Witness ==
    \E id \in DOMAIN handlers :
        /\ Succeeded(id)
        /\ route = RouteXY
        /\ handlers[id].match = <<>>
        /\ Len(invocations) = 1

-----------------------------------------------------------------------------
(* Properties of multiValueMapToSingleValueMap (SpecNorm).                 *)

\* C5: the returned map has the keys of the argument, each with the last
\* value of its sequence, or "" for an empty sequence.
C5_LastValueWins ==
    step = "returned" =>
        /\ DOMAIN svm = DOMAIN mvm
        /\ \A k \in DOMAIN mvm :
              /\ mvm[k] = <<>> => svm[k] = ""
              /\ Len(mvm[k]) = 1 => svm[k] = mvm[k][1]
              /\ Len(mvm[k]) >= 1 => svm[k] = mvm[k][Len(mvm[k])]

C5_Witness ==
    /\ step = "returned"
    /\ DOMAIN mvm = NormKeys
    /\ mvm["k1"] = <<"first", "last">>
    /\ mvm["k2"] = <<>>

-----------------------------------------------------------------------------
(* Properties of the route template functions (SpecPath).                  *)

ParamsXY(v1, v2) ==
    [k \in {<<"x">>, <<"y">>} |-> IF k = <<"x">> THEN v1 ELSE v2]

\* C7: for the template /a/:x/b/:y, the path /a/V1/b/V2 yields exactly
\* {x: V1, y: V2} and a path the pattern does not match, such as /a/V1/c,
\* yields the empty mapping.
C7_TwoPlaceholders ==
    pattern = RouteXY =>
        /\ step # "failed"
        /\ step = "done" =>
              /\ \A v1 \in Segs, v2 \in Segs :
                    upath = PathAB(v1, v2) => params = ParamsXY(v1, v2)
              /\ \A v1 \in Segs : upath = PathAC(v1) => params = EmptyMap
              /\ found = <<>> => params = EmptyMap

C7_Witness ==
    /\ step = "done"
    /\ pattern = RouteXY
    /\ upath = PathAB(<<"a", "1">>, <<"1">>)
    /\ params = ParamsXY(<<"a", "1">>, <<"1">>)

\* C9 as stated: the empty template compiles to a matcher that matches the
\* empty path and no other path.
C9_EmptyMatchesOnlyEmpty ==
    pattern = <<>> =>
        /\ step # "failed"
        /\ step = "done" => (found # <<>> <=> upath = <<>>)

\* C9 as amended: the empty template compiles to the empty pattern, which
\* matches every path, empty or not, with an empty match at its start, and
\* yields no path parameter.
C9_EmptyMatchesEverywhere ==
    pattern = <<>> =>
        /\ step # "failed"
        /\ step \in {"extract", "done"} => compiled.source = <<>>
        /\ step = "done" => found = <<(<<>>)>> /\ params = EmptyMap

C9_Witness ==
    /\ pattern = <<>>
    /\ step = "done"
    /\ upath = <<"/","p","a","t","h","/","s","u","b","P","a","t","h">>
    /\ found = <<(<<>>)>>

\* C10: every placeholder is a named group matching one or more characters
\* other than "/", and every other template character matches only itself:
\* what a placeholder-free template matches is the template's own text.
C10_LiteralCharacters ==
    step = "done" /\ found # <<>> =>
        /\ \A name \in DOMAIN params :
              Len(params[name]) > 0 /\ "/" \notin Range(params[name])
        /\ ":" \notin Range(pattern) => found[1] = pattern

-----------------------------------------------------------------------------
(* Order of the response steps, the forwarded event, and the number of     *)
(* invocations and responses (Spec).                                       *)

\* position of a ResponseWriter call in the order of the success path
CallRank(c) ==
    CASE c = "Add" -> 1
      [] c = "Set" -> 2
      [] c = "WriteHeader" -> 3
      [] c = "Write" -> 4

\* n times "Add"
Adds(n) == [i \in 1..n |-> "Add"]

\* C11: on the success path the calls on the response are the header
\* copies, then the CORS Set, then WriteHeader, then the body Write, each of
\* the last three once; the CORS Set comes when the copy is complete; after
\* the status is written the header map no longer changes.
C11_ResponseOrder ==
    \A id \in DOMAIN handlers :
        handlers[id].failed = "" =>
            LET h == handlers[id]
                w == h.w
                c == w.calls
            IN /\ \A i \in 1..Len(c), j \in 1..Len(c) :
                     i < j => /\ CallRank(c[i]) <= CallRank(c[j])
                              /\ CallRank(c[i]) = CallRank(c[j]) => c[i] = "Add"
               /\ w.statusWrites <= 1
               /\ "Set" \in Range(c) => h.todo = {}
               /\ w.wroteHeader =>
                     /\ w.statusWrites = 1
                     /\ "Set" \in Range(c) /\ "WriteHeader" \in Range(c)
                     /\ w.header = w.sent
               /\ ~w.wroteHeader => w.body = <<>> /\ "Write" \notin Range(c)
               /\ h.pc = "done" =>
                     c = Adds(Cardinality(DOMAIN h.response.Headers \ {ContentLengthLiteral}))
                            \o <<"Set", "WriteHeader", "Write">>

C11_Witness ==
    \E id \in DOMAIN handlers :
        /\ Succeeded(id)
        /\ handlers[id].w.calls = <<"Add", "Add", "Set", "WriteHeader", "Write">>

StatusCalls(w) == {i \in 1..Len(w.calls) : w.calls[i] = "WriteHeader"}

\* C13: a request invokes the function at most once, and exactly once when
\* it got as far as the invocation; its response has one status write and
\* is either the error response or the response built from the result.
C13_OneInvocationOneResponse ==
    \A id \in DOMAIN handlers :
        LET h == handlers[id] IN
        /\ Cardinality(InvocationsOf(id)) <= 1
        /\ Cardinality(InvocationsOf(id)) = 1 <=>
              \/ h.pc \in {"unmarshal", "range", "writeHeader", "writeBody"}
              \/ h.pc = "done" /\ h.failed \in {"", "invoke", "unmarshal"}
        /\ h.w.statusWrites <= 1
        /\ Cardinality(StatusCalls(h.w)) <= 1
        /\ h.pc = "done" =>
              /\ h.w.statusWrites = 1
              /\ Cardinality(StatusCalls(h.w)) = 1
              /\ IF h.failed # ""
                 THEN /\ h.w.code = StatusBadRequest
                      /\ h.w.body = <<"Error: ", h.failed, "\n">>
                      /\ h.w.calls = <<"Set", "Set", "WriteHeader", "Write">>
                 ELSE /\ h.w.code = h.result.statusCode
                      /\ h.w.body = Bytes(h.result.body)
                      /\ ContentTypeLiteral \in DOMAIN h.w.sent =>
                            ContentTypeLower \in DOMAIN h.response.Headers
                      /\ NoSniffLiteral \notin DOMAIN h.w.sent

C13_Witness ==
    \E id \in DOMAIN handlers :
        /\ handlers[id].pc = "done"
        /\ handlers[id].failed = "invoke"
        /\ Cardinality(InvocationsOf(id)) = 1
        /\ handlers[id].w.statusWrites = 1


-----------------------------------------------------------------------------
(* Requests handled at the same time (SpecConc).                           *)

\* the last value of each sequence of m, "" for an empty sequence
LastValues(m) ==
    [k \in DOMAIN m |-> IF m[k] = <<>> THEN "" ELSE m[k][Len(m[k])]]

\* the event of request id, from its own request and its own path parameters
OwnEvent(id) ==
    LET r == ConcRequest(id) IN
    [Body |-> r.Body, HTTPMethod |-> r.Method, Path |-> r.Path,
     MultiValueHeaders |-> r.Header, Headers |-> LastValues(r.Header),
     MultiValueQueryStringParameters |-> r.Query,
     QueryStringParameters |-> LastValues(r.Query),
     PathParameters |-> handlers[id].pathParameters]

\* everything request id holds or has sent comes from its own request and
\* from the result of its own invocation
OwnState(id) ==
    LET h == handlers[id] IN
    /\ h.r = ConcRequest(id)
    /\ h.body \in {"", h.r.Body}
    /\ h.request \in {ZeroRequest, OwnEvent(id)}
    /\ h.payload \in {jsonMarshal(ZeroRequest), jsonMarshal(OwnEvent(id))}
    /\ \A i \in InvocationsOf(id) : invocations[i].Payload = jsonMarshal(OwnEvent(id))
    /\ h.result.kind # "none" => Cardinality(InvocationsOf(id)) = 1
    /\ (h.failed = "" /\ h.pc \in {"range", "writeHeader", "writeBody", "done"}) =>
          h.response = jsonUnmarshal(h.result).response
    /\ (h.failed = "" /\ h.w.wroteHeader) =>
          /\ h.w.code = h.result.statusCode
          /\ DOMAIN h.w.sent =
                {CanonicalMIMEHeaderKey(k) :
                    k \in DOMAIN h.response.Headers \ {ContentLengthLiteral}}
                \cup {CorsLiteral}
    /\ Succeeded(id) => h.w.body = Bytes(h.result.body)
    /\ (h.pc = "done" /\ h.failed # "") =>
          h.w.body = <<"Error: ", h.failed, "\n">>

\* a step changes the state of one request; that request alone gets a
\* result, and gets it by an invocation that carries its own payload
StepIsLocal ==
    /\ DOMAIN handlers' = DOMAIN handlers
    /\ \A id \in DOMAIN handlers :
          handlers'[id] # handlers[id] =>
              /\ \A o \in DOMAIN handlers \ {id} : handlers'[o] = handlers[o]
              /\ invocations' # invocations =>
                    invocations' =
                        Append(invocations,
                               [id |-> id, Payload |-> handlers[id].payload])
              /\ handlers'[id].result # handlers[id].result =>
                    invocations' # invocations
    /\ route' = route

\* C14: under every interleaving of the steps of concurrent requests, each
\* forwarded event is built from its request's own method, path, body,
\* headers and query, each response from the result of its request's own
\* invocation, and each step changes the state of its own request only.
C14_RequestsIsolated ==
    /\ [](\A id \in DOMAIN handlers : OwnState(id))
    /\ [][StepIsLocal]_vars

C14_Witness ==
    \E a \in DOMAIN handlers, b \in DOMAIN handlers :
        /\ a < b
        /\ Succeeded(a) /\ Succeeded(b)
        /\ Len(invocations) >= 2
        /\ invocations[1].id = b /\ invocations[2].id = a
        /\ invocations[1].Payload # invocations[2].Payload
        /\ handlers[a].w.code # handlers[b].w.code
        /\ handlers[a].w.body # handlers[b].w.body
        /\ handlers[a].w.sent # handlers[b].w.sent

====
